---- MODULE Spec2Model ----
(***************************************************************************)
(* z80::memory<BEGIN, END>: a fixed block of bytes answering for the       *)
(* absolute address window [BEGIN, END].  The model follows memory.h as it *)
(* appears in src/Z80-Emulator/main.cpp (the current header) and the file  *)
(* constructor of the earlier header kept in src/unnamed/part_000.         *)
(*                                                                         *)
(* One behaviour is: a block is constructed (random bytes), one member     *)
(* function is called on it, and, after a save, a second block may be      *)
(* constructed from the file.  The file system and the second block are    *)
(* part of the state.                                                      *)
(***************************************************************************)
EXTENDS Integers, Sequences, FiniteSets, TLC

\* ------------------------------------------------------------------ widths
\* address_t is an unsigned type narrower than int (16 bits in the emulator);
\* size_t is the platform's unsigned word.  Both are scaled down here; all
\* wrap-arounds are kept, modulo the scaled widths.
AddrBits == 6
SizeBits == 20

RECURSIVE Pow2(_)
Pow2(n) == IF n = 0 THEN 1 ELSE 2 * Pow2(n - 1)

AddrMod == Pow2(AddrBits)
SizeMod == Pow2(SizeBits)
MaxAddr == AddrMod - 1

address_t == 0 .. MaxAddr
byte_t == 0 .. 255

\* conversion of an int to address_t (assignment, compound assignment,
\* argument passing) and of an int to size_t (comparison with size())
ToAddr(x) == x % AddrMod
ToSizeT(x) == x % SizeMod

\* ------------------------------------------------------------------ constants of the class
ASCII_NULL == 0
ASCII_SPACE == 32
ASCII_DEL == 127
PARAGRAPH == 16

\* ------------------------------------------------------------------ bounded inputs
\* MaxImages: how many streams of the random generator are told apart
\* RomLen:    the length of rom.bin, the file that exists from the start
MaxImages == 2
RomLen == 20

\* rom.bin exists from the start, out.bin does not
Paths == {"rom.bin", "out.bin"}
\* the bytes callers store: 'A' and 0xFF
FillBytes == {65, 255}
\* what may lie in the memory behind the array
Garbage == {0, 204}

\* static size_t size(): END - BEGIN + 1
size(B, E) == E - B + 1

\* column_count((size() < PARAGRAPH) ? size() : PARAGRAPH)
column_count(B, E) == IF size(B, E) < PARAGRAPH THEN size(B, E) ELSE PARAGRAPH

\* the template instantiations the model draws blocks from: small, one row,
\* one row and a part, two rows, the whole address space; placed at the
\* bottom, inside, and at the top of the address space
Sizes == {1, 4, PARAGRAPH, RomLen, 2 * PARAGRAPH, AddrMod}
Windows ==
    { w \in address_t \X address_t :
        /\ w[1] <= w[2]
        /\ size(w[1], w[2]) \in Sizes
        /\ w[1] \in {0, 5, AddrMod - size(w[1], w[2])} }

\* the default argument  address_t end = END + 1
DefaultEnd(E) == ToAddr(E + 1)

\* std::array::at(n): n is a size_t; throws std::out_of_range unless n < size()
at_ok(n, sz) == n < sz

\* new byte_array_t{} : value-initialised storage
zeroed(sz) == [i \in 0 .. sz - 1 |-> 0]

\* the stream of values distribution(rand) hands out, one bounded family per k
distribution(k, i) == (k * 97 + i * 61 + (i \div 3) * 7 + 13) % 1000

\* randomize(min, max): bytes->at(addr) = min + (distribution(rand) % (max - min + 1))
randomize(k, sz, min, max) ==
    [addr \in 0 .. sz - 1 |-> (min + (distribution(k, addr) % (max - min + 1))) % 256]

\* ------------------------------------------------------------------ accessors
\* the const accessor written with an unchecked  (*bytes)[n]  instead of at(n):
\* outside the array it hands back whatever it finds
read_unchecked(bs, B, E, addr) ==
    LET n == ToSizeT(addr - B) IN
    IF n < size(B, E)
    THEN [res |-> "ok", ret |-> bs[n]]
    ELSE [res |-> "ok", ret |-> 0]

\* byte_t operator[](address_t addr) const : bytes->at((size_t)addr - BEGIN)
read(bs, B, E, addr) ==
    LET n == ToSizeT(addr - B) IN
    IF at_ok(n, size(B, E))
    THEN [res |-> "ok", ret |-> bs[n]]
    ELSE [res |-> "OutOfRange", ret |-> -1]

\* the mutating accessor indexing with the absolute address
write_offset_absolute(B, addr) == ToSizeT(addr)

\* the offset  m[addr] = v  stores to
write_offset(B, addr) == ToSizeT(addr - B)

\* byte_t& operator[](address_t addr), used as  m[addr] = v
write(bs, B, E, addr, v) ==
    LET n == write_offset(B, addr) IN
    IF at_ok(n, size(B, E))
    THEN [res |-> "ok", bytes |-> [bs EXCEPT ![n] = v]]
    ELSE [res |-> "OutOfRange", bytes |-> bs]

\* ------------------------------------------------------------------ fill
\* for (auto i{ begin }; i < end; ++i) bytes->at((size_t)begin + i) = b;
\* begin and end are the values the loop sees (already rewritten by fill)
RECURSIVE fill_loop(_, _, _, _, _, _, _)
fill_loop(bs, sz, begin, end, i, b, wr) ==
    IF ~(i < end) THEN [res |-> "ok", bytes |-> bs, writes |-> wr]
    ELSE LET n == ToSizeT(begin + i) IN
         IF ~at_ok(n, sz) THEN [res |-> "OutOfRange", bytes |-> bs, writes |-> wr]
         ELSE fill_loop([bs EXCEPT ![n] = b], sz, begin, end, ToAddr(i + 1), b,
                        wr \cup {n})

\* void fill(byte_t b, address_t begin = BEGIN, address_t end = END + 1)
fill(bs, B, E, b, begin0, end0) ==
    LET end == ToAddr(end0 - begin0)        \* end -= begin;
        begin == ToAddr(begin0 - B)         \* begin -= BEGIN;
        fill_size == end - begin            \* auto fill_size = end - begin;  (int)
    IN  IF ToSizeT(fill_size) > size(B, E)
        THEN [res |-> "Overflow", bytes |-> bs, writes |-> {}]
        ELSE fill_loop(bs, size(B, E), begin, end, begin, b, {})

\* ------------------------------------------------------------------ dump
\* what the character column prints for a byte (the code of the character
\* written; DOT is '.'); char is signed, so a byte above 127 is negative and
\* is printed as it is
DOT == 46
as_char(byte) == IF byte > 127 THEN byte - 256 ELSE byte
printed(byte) ==
    LET c == as_char(byte) IN
    IF (c = ASCII_DEL) \/ ((c >= ASCII_NULL) /\ (c < ASCII_SPACE)) THEN DOT ELSE byte

\* the first loop of dump_paragraph: the bytes it gets through at(), in order,
\* until a column is out of range
RECURSIVE paragraph_bytes(_, _, _, _, _, _)
paragraph_bytes(bs, sz, addr, cc, i, got) ==
    IF ~(i < cc) THEN [res |-> "ok", hex |-> got]
    ELSE LET n == ToSizeT(addr + i) IN
         IF ~at_ok(n, sz) THEN [res |-> "OutOfRange", hex |-> got]
         ELSE paragraph_bytes(bs, sz, addr, cc, ToAddr(i + 1), Append(got, bs[n]))

\* void dump_paragraph(address_t addr) const : one row of output
dump_paragraph(bs, B, E, addr0) ==
    LET addr == ToAddr(addr0 - B)           \* addr -= BEGIN;
        cc == column_count(B, E)
        row == paragraph_bytes(bs, size(B, E), addr, cc, 0, <<>>)
    IN  [res |-> row.res,
         label |-> addr0,
         offset |-> addr,
         hex |-> row.hex,
         chars |-> IF row.res = "ok"
                   THEN [j \in 1 .. Len(row.hex) |-> printed(row.hex[j])]
                   ELSE <<>>]

\* for (auto i{ begin }; i < end; i += PARAGRAPH) dump_paragraph(i);
\* i is an address_t, so i += PARAGRAPH wraps; a value of i seen before means
\* the loop never ends (the storage does not change while dumping)
RECURSIVE dump_loop(_, _, _, _, _, _, _)
dump_loop(bs, B, E, end, i, rows, seen) ==
    IF ~(i < end) THEN [res |-> "ok", rows |-> rows]
    ELSE IF i \in seen THEN [res |-> "Diverges", rows |-> rows]
    ELSE LET row == dump_paragraph(bs, B, E, i) IN
         IF row.res # "ok" THEN [res |-> row.res, rows |-> Append(rows, row)]
         ELSE dump_loop(bs, B, E, end, ToAddr(i + PARAGRAPH), Append(rows, row),
                        seen \cup {i})

\* void dump(address_t begin = BEGIN, address_t end = END + 1) const
dump(bs, B, E, begin, end) ==
    LET dump_size == end - begin            \* auto dump_size = end - begin;  (int)
    IN  IF ToSizeT(dump_size) > size(B, E)
        THEN [res |-> "Overflow", rows |-> <<>>]
        ELSE dump_loop(bs, B, E, end, begin, <<>>, {})

\* the storage offsets the rows of a dump have read
rows_read(rows) ==
    UNION { { rows[r].offset + j - 1 : j \in 1 .. Len(rows[r].hex) } : r \in 1 .. Len(rows) }

\* ------------------------------------------------------------------ files
NoFile == [exists |-> FALSE, data |-> <<>>]
File(d) == [exists |-> TRUE, data |-> d]

\* the bytes f.write((char*)(bytes->data() + begin), save_size) hands to the
\* file: save_size bytes from offset begin on; g stands for whatever lies in
\* the memory behind the array
written(bs, sz, begin, save_size, g) ==
    [j \in 1 .. save_size |-> IF begin + j - 1 < sz THEN bs[begin + j - 1] ELSE g]

\* void save(const std::string& filename, address_t begin = BEGIN,
\*           address_t end = END + 1) const
\* The set of outcomes: reading behind the array is undefined, so such a call
\* may write any bytes for that part or may be killed after creating the file.
save(bs, B, E, files, filename, begin0, end) ==
    LET save_size == end - begin0           \* auto save_size = end - begin;  (int)
        begin == ToAddr(begin0 - B)         \* begin -= BEGIN;
        sz == size(B, E)
        reads == { begin + j - 1 : j \in 1 .. save_size }
    IN  IF ToSizeT(save_size) > sz
        THEN { [res |-> "Overflow", fs |-> files, reads |-> {}] }
        ELSE IF files[filename].exists
        THEN { [res |-> "AlreadyExists", fs |-> files, reads |-> {}] }
        ELSE IF \A n \in reads : n < sz
        THEN { [res |-> "ok",
                fs |-> [files EXCEPT ![filename] = File(written(bs, sz, begin, save_size, 0))],
                reads |-> reads] }
        ELSE { [res |-> "ok",
                fs |-> [files EXCEPT ![filename] = File(written(bs, sz, begin, save_size, g))],
                reads |-> reads] : g \in Garbage }
             \cup
             { [res |-> "Crash",
                fs |-> [files EXCEPT ![filename] = File(<<>>)],
                reads |-> reads] }

\* void load(const std::string& filename)
load(bs, B, E, files, filename) ==
    LET sz == size(B, E)
        file_size == Len(files[filename].data)
    IN  IF ~files[filename].exists THEN [res |-> "NotFound", bytes |-> bs]
        ELSE IF file_size < sz THEN [res |-> "SizeMismatch", bytes |-> bs]
        ELSE [res |-> "ok", bytes |-> [i \in 0 .. sz - 1 |-> files[filename].data[i + 1]]]

\* memory(byte_t b) : value-initialised storage, then fill(b)
memory_byte(B, E, b) == fill(zeroed(size(B, E)), B, E, b, B, DefaultEnd(E))

\* memory(const std::string& filename) : value-initialised storage, then load
memory_file(B, E, files, filename) == load(zeroed(size(B, E)), B, E, files, filename)

\* the file constructor of the earlier header: refuses a file larger than the
\* block, and copies the bytes of the file one by one from offset 0
memory_file_part000(B, E, files, filename) ==
    LET sz == size(B, E)
        fsize == Len(files[filename].data)
    IN  IF ~files[filename].exists THEN [res |-> "NotFound", bytes |-> zeroed(sz)]
        ELSE IF sz < fsize THEN [res |-> "SizeMismatch", bytes |-> zeroed(sz)]
        ELSE [res |-> "ok",
              bytes |-> [i \in 0 .. sz - 1 |->
                            IF i < fsize THEN files[filename].data[i + 1] ELSE 0]]

\* ------------------------------------------------------------------ state
VARIABLES
    BEGIN,      \* template parameter BEGIN of the block
    END,        \* template parameter END of the block
    bytes,      \* the storage, offset -> byte
    fs,         \* the file system, path -> file
    pc,         \* "ready": constructed; "called": one call made; "second": a second block constructed
    call,       \* the call made on the block, with its outcome
    pre,        \* storage and file system as they were before the call
    cout,       \* the rows dump has written
    touched,    \* the storage offsets the call has read or written
    mem2        \* the second block

vars == <<BEGIN, END, bytes, fs, pc, call, pre, cout, touched, mem2>>

\* the block: its window, and one byte for each offset of the window
TypeOK ==
    /\ BEGIN \in address_t /\ END \in address_t /\ BEGIN <= END
    /\ bytes \in [0 .. size(BEGIN, END) - 1 -> byte_t]
    /\ \A p \in Paths : fs[p].exists \in BOOLEAN /\ \A j \in 1 .. Len(fs[p].data) : fs[p].data[j] \in byte_t
    /\ pc \in {"ready", "called", "second"}

NoCall ==
    [op |-> "none", addr |-> 0, value |-> 0, begin |-> 0, end |-> 0, dflt |-> FALSE,
     path |-> "", res |-> "none", ret |-> -1]

NoBlock ==
    [made |-> FALSE, ctor |-> "none", BEGIN |-> 0, END |-> 0, bytes |-> <<>>,
     res |-> "none", path |-> "", value |-> 0]

\* the content of rom.bin, a file that exists before the program runs
RomByte(i) == (200 + 29 * i) % 256
Rom == [j \in 1 .. RomLen |-> RomByte(j - 1)]

\* memory() : value-initialised storage, then randomize()
Init ==
    /\ \E w \in Windows : BEGIN = w[1] /\ END = w[2]
    /\ \E k \in 1 .. MaxImages : bytes = randomize(k, size(BEGIN, END), 0, 255)
    /\ fs = [p \in Paths |-> IF p = "rom.bin" THEN File(Rom) ELSE NoFile]
    /\ pc = "ready"
    /\ call = NoCall
    /\ pre = [bytes |-> bytes, fs |-> fs]
    /\ cout = <<>>
    /\ touched = {}
    /\ mem2 = NoBlock

Called(c, bs, files, rows, offs) ==
    /\ pc' = "called"
    /\ call' = c
    /\ bytes' = bs
    /\ fs' = files
    /\ cout' = rows
    /\ touched' = offs
    /\ pre' = [bytes |-> bytes, fs |-> fs]
    /\ UNCHANGED <<BEGIN, END, mem2>>

\* v = m[addr] through the const accessor
Read ==
    /\ pc = "ready"
    /\ \E addr \in address_t :
        LET r == read(bytes, BEGIN, END, addr) IN
        Called([NoCall EXCEPT !.op = "read", !.addr = addr, !.res = r.res, !.ret = r.ret],
               bytes, fs, <<>>, IF r.res = "ok" THEN {ToSizeT(addr - BEGIN)} ELSE {})

\* m[addr] = v through the mutating accessor
Write ==
    /\ pc = "ready"
    /\ \E addr \in address_t, v \in FillBytes :
        LET r == write(bytes, BEGIN, END, addr, v) IN
        Called([NoCall EXCEPT !.op = "write", !.addr = addr, !.value = v, !.res = r.res],
               r.bytes, fs, <<>>, IF r.res = "ok" THEN {write_offset(BEGIN, addr)} ELSE {})

\* the end argument of a range call: given, or left to its default
EndArgs(dflt) == IF dflt THEN {DefaultEnd(END)} ELSE address_t

Fill ==
    /\ pc = "ready"
    /\ \E b \in FillBytes, begin \in address_t, dflt \in BOOLEAN :
      \E end \in EndArgs(dflt) :
        LET r == fill(bytes, BEGIN, END, b, begin, end) IN
        Called([NoCall EXCEPT !.op = "fill", !.value = b, !.begin = begin, !.end = end,
                              !.dflt = dflt, !.res = r.res],
               r.bytes, fs, <<>>, r.writes)

Dump ==
    /\ pc = "ready"
    /\ \E begin \in address_t, dflt \in BOOLEAN :
      \E end \in EndArgs(dflt) :
        LET r == dump(bytes, BEGIN, END, begin, end) IN
        Called([NoCall EXCEPT !.op = "dump", !.begin = begin, !.end = end,
                              !.dflt = dflt, !.res = r.res],
               bytes, fs, r.rows, rows_read(r.rows))

Save ==
    /\ pc = "ready"
    /\ \E filename \in Paths, begin \in address_t, dflt \in BOOLEAN :
      \E end \in EndArgs(dflt) :
        \E r \in save(bytes, BEGIN, END, fs, filename, begin, end) :
          Called([NoCall EXCEPT !.op = "save", !.path = filename, !.begin = begin,
                                !.end = end, !.dflt = dflt, !.res = r.res],
                 bytes, r.fs, <<>>, r.reads)

Load ==
    /\ pc = "ready"
    /\ \E filename \in Paths :
        LET r == load(bytes, BEGIN, END, fs, filename) IN
        Called([NoCall EXCEPT !.op = "load", !.path = filename, !.res = r.res],
               r.bytes, fs, <<>>, IF r.res = "ok" THEN 0 .. size(BEGIN, END) - 1 ELSE {})

Randomize ==
    /\ pc = "ready"
    /\ \E k \in 1 .. MaxImages, range \in {<<0, 255>>, <<32, 126>>} :
        Called([NoCall EXCEPT !.op = "randomize", !.begin = range[1], !.end = range[2],
                              !.res = "ok"],
               randomize(k, size(BEGIN, END), range[1], range[2]), fs, <<>>,
               0 .. size(BEGIN, END) - 1)

\* ------------------------------------------------------------------ a second block
Second(m) ==
    /\ pc' = "second"
    /\ mem2' = m
    /\ UNCHANGED <<BEGIN, END, bytes, fs, call, pre, cout, touched>>

\* the length of the span the caller of a range call asked for
IntendedEnd == IF call.dflt THEN END + 1 ELSE call.end
IntendedLen == IntendedEnd - call.begin

\* the windows a second block is constructed with: any of the family when it
\* is the first thing done; after a save, the zero-based block as large as
\* the span that was to be saved
Windows2 ==
    IF pc = "ready" THEN Windows
    ELSE IF IntendedLen \in 1 .. AddrMod THEN { <<0, IntendedLen - 1>> }
    ELSE {}

CanConstruct == pc = "ready" \/ (pc = "called" /\ call.op = "save")
PathsToLoad == IF pc = "ready" THEN Paths ELSE {call.path}

ConstructByte ==
    /\ pc = "ready"
    /\ \E w \in Windows, b \in FillBytes :
        LET r == memory_byte(w[1], w[2], b) IN
        Second([NoBlock EXCEPT !.made = (r.res = "ok"), !.ctor = "byte", !.BEGIN = w[1],
                               !.END = w[2], !.bytes = r.bytes, !.res = r.res, !.value = b])

ConstructFile ==
    /\ CanConstruct
    /\ \E w \in Windows2, filename \in PathsToLoad :
        LET r == memory_file(w[1], w[2], fs, filename) IN
        Second([NoBlock EXCEPT !.made = (r.res = "ok"), !.ctor = "file", !.BEGIN = w[1],
                               !.END = w[2], !.bytes = r.bytes, !.res = r.res,
                               !.path = filename])

ConstructFilePart000 ==
    /\ CanConstruct
    /\ \E w \in Windows2, filename \in PathsToLoad :
        LET r == memory_file_part000(w[1], w[2], fs, filename) IN
        Second([NoBlock EXCEPT !.made = (r.res = "ok"), !.ctor = "file_part000",
                               !.BEGIN = w[1], !.END = w[2], !.bytes = r.bytes,
                               !.res = r.res, !.path = filename])

Next ==
    \/ Read
    \/ Write
    \/ Fill
    \/ Dump
    \/ Save
    \/ Load
    \/ Randomize
    \/ ConstructByte
    \/ ConstructFile
    \/ ConstructFilePart000

Spec == Init /\ [][Next]_vars

\* the accessors alone
NextAccess == Read \/ Write
SpecAccess == Init /\ [][NextAccess]_vars

\* ------------------------------------------------------------------ properties
RangeOp == call.op \in {"fill", "dump", "save"}
Failed == call.res \in {"Overflow", "OutOfRange", "NotFound", "SizeMismatch", "AlreadyExists"}
Offsets == 0 .. size(BEGIN, END) - 1

\* the span the caller asked for lies in the window: BEGIN <= begin <= end <= END + 1
InWindow ==
    /\ BEGIN <= call.begin
    /\ call.begin <= IntendedEnd
    /\ IntendedEnd <= END + 1

\* C1: after a write of v at an address of the window through the mutating
\* accessor, the const accessor returns v at that address.
C1_WriteThenRead ==
    (call.op = "write" /\ BEGIN <= call.addr /\ call.addr <= END)
        => /\ call.res = "ok"
           /\ read(bytes, BEGIN, END, call.addr) = [res |-> "ok", ret |-> call.value]

C1_Witness ==
    /\ call.op = "write"
    /\ BEGIN > 0
    /\ BEGIN < call.addr /\ call.addr <= END
    /\ pre.bytes[call.addr - BEGIN] # call.value
    /\ read(bytes, BEGIN, END, call.addr).ret = call.value

\* C2: a read or a write at an address below BEGIN or above END fails with
\* OutOfRange; the read returns no byte and the write stores none.
C2_OutOfRange ==
    (call.op \in {"read", "write"} /\ (call.addr < BEGIN \/ call.addr > END))
        => /\ call.res = "OutOfRange"
           /\ call.ret = -1
           /\ bytes = pre.bytes

C2_Witness ==
    /\ call.op = "read"
    /\ call.addr < BEGIN
    /\ call.res = "OutOfRange"

\* C3: fill over a span inside the window completes and replaces exactly the
\* bytes at offsets begin - BEGIN up to, excluding, end - BEGIN.
C3_FillSpan ==
    (call.op = "fill" /\ InWindow)
        => /\ call.res = "ok"
           /\ bytes = [n \in Offsets |->
                          IF call.begin - BEGIN <= n /\ n < IntendedEnd - BEGIN
                          THEN call.value ELSE pre.bytes[n]]

\* C4: dump, fill and save fail with Overflow whenever end - begin is greater
\* than size().
C4_Overflow ==
    (RangeOp /\ call.end - call.begin > size(BEGIN, END)) => call.res = "Overflow"

\* C5: a range call whose span is not wholly inside the window fails with an
\* error, and no range call touches a storage offset outside [0, size).
C5_NoStrayAccess ==
    RangeOp => /\ ~InWindow => Failed
               /\ touched \subseteq Offsets

\* C6: dump over a span inside the window completes, its rows advance by the
\* column count, and it renders only bytes at addresses in [begin, end).
C6_DumpSpan ==
    (call.op = "dump" /\ InWindow)
        => /\ call.res = "ok"
           /\ \A r \in 1 .. Len(cout) :
                cout[r].label = call.begin + (r - 1) * column_count(BEGIN, END)
           /\ \A n \in touched : call.begin <= BEGIN + n /\ BEGIN + n < IntendedEnd

\* C7: after fill(v) over the default full range, and after construction with
\* the fill byte v, every address of the window reads v.
C7_FillAll ==
    /\ (call.op = "fill" /\ call.dflt /\ call.begin = BEGIN)
          => /\ call.res = "ok"
             /\ \A a \in BEGIN .. END : read(bytes, BEGIN, END, a).ret = call.value
    /\ mem2.ctor = "byte"
          => /\ mem2.made
             /\ \A a \in mem2.BEGIN .. mem2.END :
                    read(mem2.bytes, mem2.BEGIN, mem2.END, a).ret = mem2.value

\* C8: save of a span inside the window to a path that did not exist, then a
\* block of the span's size constructed from that file: byte i of the new
\* block is the byte the first block holds at address begin + i.
C8_RoundTrip ==
    ( /\ pc = "second"
      /\ call.op = "save"
      /\ mem2.ctor = "file"
      /\ InWindow
      /\ ~pre.fs[call.path].exists
      /\ size(mem2.BEGIN, mem2.END) = IntendedLen )
        => /\ call.res = "ok"
           /\ mem2.made
           /\ \A i \in 0 .. IntendedLen - 1 :
                mem2.bytes[i] = pre.bytes[call.begin - BEGIN + i]

\* what C9 asks of a load into a block of sz bytes: NotFound without the file,
\* SizeMismatch for a shorter file, else the first sz bytes of the file
LoadsAsSpecified(res, bs, sz, file) ==
    /\ ~file.exists => res = "NotFound"
    /\ (file.exists /\ Len(file.data) < sz) => res = "SizeMismatch"
    /\ (file.exists /\ Len(file.data) >= sz)
          => /\ res = "ok"
             /\ bs = [n \in 0 .. sz - 1 |-> file.data[n + 1]]

\* C9: load, and construction from a file, fail with NotFound when the path
\* does not exist and with SizeMismatch when the file is shorter than size();
\* otherwise the first size() bytes of the file become the storage.
C9_Load ==
    /\ call.op = "load"
          => LoadsAsSpecified(call.res, bytes, size(BEGIN, END), fs[call.path])
    /\ mem2.ctor \in {"file", "file_part000"}
          => LoadsAsSpecified(mem2.res, mem2.bytes, size(mem2.BEGIN, mem2.END),
                              fs[mem2.path])

\* C10: save of a span no longer than size() to a path that exists fails with
\* AlreadyExists and leaves the file system and the storage as they were.
C10_SaveExisting ==
    ( /\ call.op = "save"
      /\ call.begin <= IntendedEnd
      /\ IntendedLen <= size(BEGIN, END)
      /\ pre.fs[call.path].exists )
        => /\ call.res = "AlreadyExists"
           /\ fs = pre.fs
           /\ bytes = pre.bytes

====
